---- MODULE Spec2Model ----
(***************************************************************************)
(* A model of go-game.js: the rules engine (groups, liberties, captures,   *)
(* suicide, simple-ko, legal moves), the AI move selector with its         *)
(* cooperative yields and cancellation token, and the session controller   *)
(* (App: playAt, passMove, undo, newGame and the AI turn effect).          *)
(*                                                                         *)
(* Boards are functions [0..size-1 -> [0..size-1 -> {EMPTY,BLACK,WHITE}]], *)
(* indexed as in the source.  The program offers sizes 9, 11 and 19; the   *)
(* model plays on small boards (see Sizes).   *)
(***************************************************************************)
EXTENDS Integers, Sequences, FiniteSets, TLC

VARIABLES
  \* ---- one call of the rules engine (SpecEngine) ----
  eBoard,      \* the caller's board array (its content after the call)
  eCall,       \* the last call: its arguments and what it returned
  \* ---- one call of chooseAIMoveAsync (SpecSelect) ----
  selIn,       \* its arguments: board, color, level, koKeyLast, blitz
  selCtx,      \* what it computed before its loops: moves, candidates, budgets
  sel,         \* where the call is: not started, at a yield, or returned
  cancelRef,   \* cancelRef.current
  \* ---- the session controller, App (Spec, SpecGame) ----
  size, board, toPlay, lastKey, history, passes,
  humanColor, aiLevel, aiThinking, blitz,
  thinks,      \* the think() calls still running, oldest first: each with the
               \* board, toPlay, aiLevel, lastKey, blitz of the render that
               \* started it, its cancelRef.current, and where it is
  aiResult     \* the last think() to finish: was its token set, and did it get
               \* a move from chooseAIMoveAsync (observation only)

engineVars == <<eBoard, eCall>>
selectVars == <<selIn, selCtx, sel, cancelRef>>
gameVars == <<size, board, toPlay, lastKey, history, passes>>
sessionVars == <<size, board, toPlay, lastKey, history, passes,
                 humanColor, aiLevel, aiThinking, blitz, thinks, aiResult>>
vars == <<eBoard, eCall, selIn, selCtx, sel, cancelRef,
          size, board, toPlay, lastKey, history, passes,
          humanColor, aiLevel, aiThinking, blitz, thinks, aiResult>>

-----------------------------------------------------------------------------
(* Types & utilities *)

EMPTY == 0
BLACK == 1
WHITE == 2

\* JavaScript's null where an object is expected (an illegal move, a cancelled
\* decision).
NULL == [null |-> TRUE]

\* JavaScript's null where a position key is expected (no ko key): no board's
\* key is empty.
NoKey == <<>>

\* OTHER in the source (a reserved word here).
OtherColor(c) == IF c = BLACK THEN WHITE ELSE BLACK

makeBoard(sz) == [r \in 0..(sz - 1) |-> [c \in 0..(sz - 1) |-> EMPTY]]

cloneBoard(bd) == [r \in DOMAIN bd |-> [c \in DOMAIN bd[r] |-> bd[r][c]]]

\* board.length
SizeOf(bd) == Cardinality(DOMAIN bd)

\* board.map(r => r.join("")).join("|"): the string as a sequence of
\* characters, row after row, a "|" between two rows.
boardKey(bd) ==
  LET sz == SizeOf(bd)
  IN [i \in 1..(sz * (sz + 1) - 1) |->
        LET r == (i - 1) \div (sz + 1)
            c == (i - 1) % (sz + 1)
        IN IF c = sz THEN "|"
           ELSE IF bd[r][c] = EMPTY THEN "0"
           ELSE IF bd[r][c] = BLACK THEN "1" ELSE "2"]

inBounds(sz, r, c) == r >= 0 /\ r < sz /\ c >= 0 /\ c < sz

InBoundsCell(sz, p) == inBounds(sz, p[1], p[2])

\* up, down, left, right, those on the board, in that order.
neighbors(sz, r, c) ==
  LET ok(p) == InBoundsCell(sz, p)
  IN SelectSeq(<<<<r - 1, c>>, <<r + 1, c>>, <<r, c - 1>>, <<r, c + 1>>>>, ok)

Range(s) == {s[i] : i \in DOMAIN s}

Cells(sz) == (0..(sz - 1)) \X (0..(sz - 1))

\* The board sizes of the model (the program's are 9, 11 and 19).
Sizes == {2, 3}

\* neighbors(size, r, c) as a set.
NeighborSet(sz, p) ==
  {q \in {<<p[1] - 1, p[2]>>, <<p[1] + 1, p[2]>>, <<p[1], p[2] - 1>>, <<p[1], p[2] + 1>>} :
     InBoundsCell(sz, q)}

-----------------------------------------------------------------------------
(* Group / liberty analyzer *)

\* The stones the flood fill of floodGroup collects: the 4-connected cells of
\* `color` reachable from `stones`.
RECURSIVE floodStones(_, _, _)
floodStones(bd, color, stones) ==
  LET sz == SizeOf(bd)
      more == {n \in UNION {NeighborSet(sz, s) : s \in stones} :
                 bd[n[1]][n[2]] = color} \ stones
  IN IF more = {} THEN stones ELSE floodStones(bd, color, stones \cup more)

floodGroup(bd, r, c) ==
  LET sz == SizeOf(bd)
      color == bd[r][c]
      stones == floodStones(bd, color, {<<r, c>>})
  IN [color |-> color,
      stones |-> stones,
      liberties |-> {n \in UNION {NeighborSet(sz, s) : s \in stones} :
                       bd[n[1]][n[2]] = EMPTY}]

-----------------------------------------------------------------------------
(* Move legality & capture engine *)

\* board[r][c] !== EMPTY: the target cell is taken.
isOccupied_Never(bd, r, c) == FALSE
isOccupied(bd, r, c) == bd[r][c] # EMPTY

\* for (const [sr, sc] of grp.stones) { newB[sr][sc] = EMPTY; captured++; }
removeStones(newB, stones) ==
  [r \in DOMAIN newB |-> [c \in DOMAIN newB[r] |->
     IF <<r, c>> \in stones THEN EMPTY ELSE newB[r][c]]]

capturedAfter_PerGroup(captured, stones) == captured + 1
capturedAfter(captured, stones) == captured + Cardinality(stones)

\* The loop over the placed stone's neighbours: each opponent neighbour whose
\* group has no liberty left is taken off newB, one neighbour after the other.
RECURSIVE captureLoop(_, _, _, _, _, _)
captureLoop(newB, nbrs, k, opp, seen, captured) ==
  IF k > Len(nbrs) THEN [board |-> newB, captured |-> captured]
  ELSE LET nr == nbrs[k][1]
           nc == nbrs[k][2]
           keyN == <<nr, nc>>
       IN IF newB[nr][nc] # opp THEN captureLoop(newB, nbrs, k + 1, opp, seen, captured)
          ELSE IF keyN \in seen THEN captureLoop(newB, nbrs, k + 1, opp, seen, captured)
          ELSE LET grp == floodGroup(newB, nr, nc)
               IN IF grp.liberties = {}
                  THEN captureLoop(removeStones(newB, grp.stones), nbrs, k + 1, opp,
                                   seen \cup {keyN}, capturedAfter(captured, grp.stones))
                  ELSE captureLoop(newB, nbrs, k + 1, opp, seen \cup {keyN}, captured)

\* const self = floodGroup(newB, r, c): the placed stone's group on the board
\* the captures left (`placed` is the board right after the placement).
selfGroup_BeforeCaptures(placed, newB, r, c) == floodGroup(placed, r, c)
selfGroup(placed, newB, r, c) == floodGroup(newB, r, c)

\* if (self.liberties.length === 0) return null
isSuicide_Never(self) == FALSE
isSuicide(self) == self.liberties = {}

\* The call as a whole: what it returns and what the caller's array holds
\* afterwards.  Every write goes to newB, the clone, so the array passed in is
\* the one that came in.
placeAndCaptureRun(bd, r, c, color) ==
  LET sz == SizeOf(bd)
  IN IF isOccupied(bd, r, c) THEN [ret |-> NULL, input |-> bd]
     ELSE LET placed == [cloneBoard(bd) EXCEPT ![r][c] = color]
              cap == captureLoop(placed, neighbors(sz, r, c), 1, OtherColor(color), {}, 0)
              self == selfGroup(placed, cap.board, r, c)
          IN IF isSuicide(self) THEN [ret |-> NULL, input |-> bd]
             ELSE [ret |-> [board |-> cap.board, captured |-> cap.captured],
                   input |-> bd]

placeAndCapture(bd, r, c, color) == placeAndCaptureRun(bd, r, c, color).ret

\* list.push({ r: -1, c: -1, res: { board: cloneBoard(board), captured: 0 }, pass: true })
passEntry(bd) ==
  [r |-> -1, c |-> -1, res |-> [board |-> cloneBoard(bd), captured |-> 0], pass |-> TRUE]

appendPass_Missing(list, bd) == list
appendPass(list, bd) == Append(list, passEntry(bd))

\* if (koKeyLast && k === koKeyLast) continue
isKoRepeat_Never(koKeyLast, k) == FALSE
isKoRepeat(koKeyLast, k) == koKeyLast # NoKey /\ k = koKeyLast

\* The double loop of legalMoves from cell number n (row-major) on.
RECURSIVE legalPlacements(_, _, _, _)
legalPlacements(bd, color, koKeyLast, n) ==
  LET sz == SizeOf(bd)
      r == n \div sz
      c == n % sz
  IN IF n >= sz * sz THEN <<>>
     ELSE LET rest == legalPlacements(bd, color, koKeyLast, n + 1)
          IN IF bd[r][c] # EMPTY THEN rest
             ELSE LET res == placeAndCapture(bd, r, c, color)
                  IN IF res = NULL THEN rest
                     ELSE IF isKoRepeat(koKeyLast, boardKey(res.board)) THEN rest
                     ELSE <<[r |-> r, c |-> c, res |-> res, pass |-> FALSE]>> \o rest

legalMoves(bd, color, koKeyLast) ==
  appendPass(legalPlacements(bd, color, koKeyLast, 0), bd)

-----------------------------------------------------------------------------
(* Area scorer: chineseScore *)

\* The stones of `color` on the board (the first double loop).
countStones(bd, color) ==
  Cardinality({p \in Cells(SizeOf(bd)) : bd[p[1]][p[2]] = color})

\* The loop over the neighbours of a cell taken off the stack: an empty
\* neighbour not seen yet is marked and pushed, a stone adds its color to
\* border.
RECURSIVE visitNeighbors(_, _, _, _, _, _)
visitNeighbors(bd, nbrs, k, q, seen, border) ==
  IF k > Len(nbrs) THEN [q |-> q, seen |-> seen, border |-> border]
  ELSE LET v == bd[nbrs[k][1]][nbrs[k][2]]
       IN IF v = EMPTY /\ nbrs[k] \notin seen
          THEN visitNeighbors(bd, nbrs, k + 1, Append(q, nbrs[k]), seen \cup {nbrs[k]}, border)
          ELSE IF v # EMPTY
          THEN visitNeighbors(bd, nbrs, k + 1, q, seen, border \cup {v})
          ELSE visitNeighbors(bd, nbrs, k + 1, q, seen, border)

\* while (q.length) { const [rr, cc] = q.pop(); count++; ... }
RECURSIVE fillRegion(_, _, _, _, _)
fillRegion(bd, q, seen, count, border) ==
  IF Len(q) = 0 THEN [seen |-> seen, count |-> count, border |-> border]
  ELSE LET cell == q[Len(q)]
           v == visitNeighbors(bd, neighbors(SizeOf(bd), cell[1], cell[2]), 1,
                               SubSeq(q, 1, Len(q) - 1), seen, border)
       IN fillRegion(bd, v.q, v.seen, count + 1, v.border)

\* if (border.size === 1) owner = border.has(BLACK) ? BLACK : WHITE;  0 stands
\* for dame/mixed.
regionOwner_AnyBorder(border) ==
  IF border = {} THEN 0 ELSE IF BLACK \in border THEN BLACK ELSE WHITE
regionOwner(border) ==
  IF Cardinality(border) = 1 THEN (IF BLACK \in border THEN BLACK ELSE WHITE) ELSE 0

\* The second double loop from cell number n (row-major) on.
RECURSIVE scoreRegions(_, _, _, _, _)
scoreRegions(bd, n, seen, black, white) ==
  LET sz == SizeOf(bd)
      r == n \div sz
      c == n % sz
  IN IF n >= sz * sz THEN [black |-> black, white |-> white]
     ELSE IF bd[r][c] # EMPTY \/ <<r, c>> \in seen
     THEN scoreRegions(bd, n + 1, seen, black, white)
     ELSE LET reg == fillRegion(bd, <<<<r, c>>>>, seen \cup {<<r, c>>}, 0, {})
              owner == regionOwner(reg.border)
          IN scoreRegions(bd, n + 1, reg.seen,
                          IF owner = BLACK THEN black + reg.count ELSE black,
                          IF owner = WHITE THEN white + reg.count ELSE white)

chineseScore(bd) ==
  scoreRegions(bd, 0, {}, countStones(bd, BLACK), countStones(bd, WHITE))

-----------------------------------------------------------------------------
(* Heuristic evaluator *)

\* A score is kept exactly as a pair [x, q] that stands for the real number
\* (x - sqrt(q)) / 10: the heuristic of a placement is
\*   n + (size/2 - sqrt(dr^2 + dc^2)) * 0.2,  n an integer,
\* and with q = (2r - (size-1))^2 + (2c - (size-1))^2 ten times that is
\* 10n + size - sqrt(q).  NoScore stands for the -1e9 and -Infinity below every
\* score.
NoScore == [none |-> TRUE]

\* a > b on scores.
ScoreGt(a, b) ==
  IF b = NoScore THEN a # NoScore
  ELSE IF a = NoScore THEN FALSE
  ELSE LET D == a.x - b.x
       IN \* a.x - sqrt(a.q) > b.x - sqrt(b.q), decided in integers
          IF D * D > a.q + b.q THEN D > 0
          ELSE IF D >= 0
               THEN LET R == a.q - D * D - b.q
                    IN R < 0 \/ 4 * D * D * b.q > R * R
               ELSE LET R == b.q - a.q - D * D
                    IN R > 0 /\ R * R > 4 * D * D * a.q

Max(a, b) == IF a >= b THEN a ELSE b
Min(a, b) == IF a <= b THEN a ELSE b

\* The loop of heuristic over the neighbours: for each neighbour stone of the
\* mover's color, 3 minus the liberties of its group, if positive.
RECURSIVE helpWeakGroups(_, _, _, _)
helpWeakGroups(bd, nbrs, k, color) ==
  IF k > Len(nbrs) THEN 0
  ELSE (IF bd[nbrs[k][1]][nbrs[k][2]] = color
        THEN Max(0, 3 - Cardinality(floodGroup(bd, nbrs[k][1], nbrs[k][2]).liberties))
        ELSE 0)
       + helpWeakGroups(bd, nbrs, k + 1, color)

heuristic(bd, move, color) ==
  IF move.pass THEN [x |-> -2, q |-> 0]
  ELSE LET sz == SizeOf(bd)
           r == move.r
           c == move.c
           self == floodGroup(move.res.board, r, c)
           n == move.res.captured * 5
                + helpWeakGroups(bd, neighbors(sz, r, c), 1, color)
                - (IF Cardinality(self.liberties) = 1 THEN 3 ELSE 0)
       IN [x |-> 10 * n + sz,
           q |-> (2 * r - (sz - 1)) * (2 * r - (sz - 1))
                 + (2 * c - (sz - 1)) * (2 * c - (sz - 1))]

-----------------------------------------------------------------------------
(* Random playout: randomPlayoutWinner *)

\* s = heuristic(board, m, turn) + Math.random() * 0.3, sorted descending,
\* then one of the first K = min(10, length) is taken: m can be taken unless
\* K or more moves are ahead of it whatever the random parts (each in
\* [0, 0.3)) are, that is, have a heuristic at least 0.3 above its own.
playoutPicks(bd, moves, turn) ==
  LET h == [i \in DOMAIN moves |-> heuristic(bd, moves[i], turn)]
      K == Min(10, Len(moves))
      ahead(i) == {j \in DOMAIN moves \ {i} :
                     ~ScoreGt([x |-> h[i].x + 3, q |-> h[i].q], h[j])}
  IN {moves[i] : i \in {k \in DOMAIN moves : Cardinality(ahead(k)) < K}}

\* const replyIsPass = replyMoves.length && replyMoves[last].pass && replyMoves.length === 1
replyIsPass(replyMoves) ==
  Len(replyMoves) = 1 /\ replyMoves[Len(replyMoves)].pass

\* return black > white ? BLACK : WHITE
playoutWinner(bd) ==
  LET score == chineseScore(bd)
  IN IF score.black > score.white THEN BLACK ELSE WHITE

\* The loop of randomPlayoutWinner from the top of iteration st.t: it leaves
\* the loop and returns when t reaches plies.  Next to the function's own
\* variables the state keeps what has been simulated: moved, the number of
\* moves; passRun, the number of passes the simulated moves end with;
\* afterTwo, a move was simulated after two passes in a row.
playoutTop(st) ==
  IF st.t < st.plies THEN st
  ELSE [st EXCEPT !.pc = "returned", !.ret = playoutWinner(st.board)]

\* One iteration of the loop with the move `pick`.
playoutPly(st, pick) ==
  LET next == pick.res.board
      newKey == boardKey(next)
      turn == OtherColor(st.turn)
      played == [st EXCEPT !.board = next, !.koKeyLast = newKey, !.lastPass = pick.pass,
                           !.turn = turn, !.moved = @ + 1,
                           !.passRun = IF pick.pass THEN Min(2, @ + 1) ELSE 0,
                           !.afterTwo = @ \/ st.passRun >= 2]
  IN IF pick.pass /\ replyIsPass(legalMoves(next, turn, newKey))
     THEN [played EXCEPT !.pc = "returned", !.ret = playoutWinner(next)]
     ELSE playoutTop([played EXCEPT !.t = @ + 1])

\* randomPlayoutWinner(startBoard, colorToPlay, plies) up to the first
\* iteration.
playoutStart(startBoard, colorToPlay, plies) ==
  playoutTop([op |-> "randomPlayoutWinner", pc |-> "loop", ret |-> NULL,
              board |-> cloneBoard(startBoard), koKeyLast |-> NoKey, lastPass |-> FALSE,
              turn |-> colorToPlay, t |-> 0, plies |-> plies,
              moved |-> 0, passRun |-> 0, afterTwo |-> FALSE])

-----------------------------------------------------------------------------
(* AI move selection: chooseAIMoveAsync *)

\* const candidateLimit = sz <= 9 ? 18 : (sz === 11 ? 28 : (level <= 2 ? 22 : 45))
candidateLimit(sz, level) ==
  IF sz <= 9 THEN 18 ELSE IF sz = 11 THEN 28 ELSE IF level <= 2 THEN 22 ELSE 45

\* Array.prototype.sort with (a, b) => h(b) - h(a): descending and stable.  The
\* entries are [m, h] pairs, h the heuristic of m.
RECURSIVE insertDesc(_, _, _)
insertDesc(sorted, e, k) ==
  IF k > Len(sorted) THEN Append(sorted, e)
  ELSE IF ScoreGt(e.h, sorted[k].h)
       THEN SubSeq(sorted, 1, k - 1) \o <<e>> \o SubSeq(sorted, k, Len(sorted))
       ELSE insertDesc(sorted, e, k + 1)

RECURSIVE sortDesc(_, _, _)
sortDesc(list, k, sorted) ==
  IF k > Len(list) THEN sorted
  ELSE sortDesc(list, k + 1, insertDesc(sorted, list[k], 1))

\* [...captures, ...noncaps], noncaps the sorted non-capture moves after
\* .slice(0, Math.max(0, candidateLimit - captures.length))
pruned_CutAll(captures, sorted, limit) ==
  SubSeq(sorted \o captures, 1, Min(Len(sorted) + Len(captures), limit))
pruned(captures, sorted, limit) ==
  captures \o SubSeq(sorted, 1, Min(Len(sorted), Max(0, limit - Len(captures))))

\* Candidate pruning: all capture moves, then the best others by heuristic up
\* to the limit; the whole list if that leaves nothing.  Each candidate comes
\* with its heuristic.
candidatesOf(bd, color, level, moves) ==
  LET scored == [i \in DOMAIN moves |-> [m |-> moves[i], h |-> heuristic(bd, moves[i], color)]]
      isCapture(e) == e.m.res.captured > 0
      isNonCapture(e) == e.m.res.captured = 0
      captures == SelectSeq(scored, isCapture)
      sorted == sortDesc(SelectSeq(scored, isNonCapture), 1, <<>>)
      candidates == pruned(captures, sorted, candidateLimit(SizeOf(bd), level))
  IN IF Len(candidates) = 0 THEN scored ELSE candidates

\* const playoutsTable = [0, 6, 20, 60, 120]
playoutsTable == <<0, 6, 20, 60, 120>>

\* const L = Math.max(1, Math.min(5, level))
clampLevel(level) == Max(1, Min(5, level))

\* timeBudgetMs is finite: blitz ? 150 : (L <= 2 ? ... : Infinity)
hasTimeBudget_Never(L, blz) == FALSE
hasTimeBudget(L, blz) == blz \/ L <= 2

\* const totalWork = Math.max(1, candidates.length * Math.max(1, playouts))
totalWork(ctx) == Max(1, Len(ctx.cands) * Max(1, ctx.playouts))

\* The non-capture moves, which line 223 sorts with a comparator that calls
\* heuristic twice per comparison.
nonCaptures(moves) ==
  LET isNonCapture(m) == m.res.captured = 0
  IN SelectSeq(moves, isNonCapture)

\* The number of comparisons Array.prototype.sort can make on n elements is
\* up to the engine: none below two elements, and from n - 1 (no fewer settle
\* an order) to n (n - 1) / 2 above.
SortComparisons(n) == IF n < 2 THEN {0} ELSE (n - 1)..((n * (n - 1)) \div 2)

\* What one call works with: its arguments and what it computes before the
\* loops.
SelectContext(bd, color, level, koKeyLast, blz) ==
  LET moves == legalMoves(bd, color, koKeyLast)
      L == clampLevel(level)
  IN [moves |-> moves,
      onlyPass |-> Len(moves) = 1 /\ moves[1].pass,
      cands |-> candidatesOf(bd, color, level, moves),
      L |-> L,
      playouts |-> playoutsTable[L],
      capped |-> hasTimeBudget(L, blz)]

\* Math.min(99, Math.round((done / totalWork) * 100))
progressOf_Uncapped(done, total) == (200 * done + total) \div (2 * total)
progressOf(done, total) == Min(99, (200 * done + total) \div (2 * total))

\* What a call has done so far, as its caller can see it: done, the playouts
\* run (done++ follows each randomPlayoutWinner); over, the clock check found
\* the budget exceeded; evals, the calls of heuristic from the loops; last,
\* the last value given to onProgress (-1: none yet); rising, no value was
\* below the one before it or below 0; full, the number of reports of 100.
Fresh == [done |-> 0, over |-> FALSE, evals |-> 0, last |-> -1, rising |-> TRUE, full |-> 0]

\* onProgress?.(v)
onProgress(st, v) ==
  [st EXCEPT !.last = v, !.rising = @ /\ v >= st.last /\ v >= 0,
             !.full = @ + (IF v = 100 THEN 1 ELSE 0)]

\* The call has returned `move` (a move, or NULL for a cancelled decision).
Returned(st, move) ==
  [pc |-> "returned", ret |-> move, done |-> st.done, over |-> st.over,
   evals |-> st.evals, last |-> st.last, rising |-> st.rising, full |-> st.full]

\* Level 1: for (const m of candidates) { if (cancelRef?.current) return null; ... }
RECURSIVE bestByHeuristic(_, _, _, _)
bestByHeuristic(cands, k, best, bestS) ==
  IF k > Len(cands) THEN best
  ELSE IF ScoreGt(cands[k].h, bestS)
       THEN bestByHeuristic(cands, k + 1, cands[k].m, cands[k].h)
       ELSE bestByHeuristic(cands, k + 1, best, bestS)

\* The token cannot change during the loop, which has no await: a call with
\* the token set returns at the first poll, before any call of heuristic.
levelOne(ctx, cancel) ==
  IF cancel THEN Returned(Fresh, NULL)
  ELSE Returned(onProgress([Fresh EXCEPT !.evals = Len(ctx.cands)], 100),
                bestByHeuristic(ctx.cands, 1, ctx.cands[1].m, NoScore))

\* The clock check `now - start > timeBudgetMs`: the values it can have for a
\* decision whose budget was (over) or was not yet exceeded at the last check.
\* Time only goes on, and an infinite budget is never exceeded.
ClockChecks(ctx, over) ==
  IF ~ctx.capped THEN {FALSE} ELSE IF over THEN {TRUE} ELSE {FALSE, TRUE}

\* const score = wins + tie, tie = heuristic * 0.1: a hundred times that is
\* 100 wins + 10 heuristic.
candidateScore(h, wins) == [x |-> 100 * wins + h.x, q |-> h.q]

\* Lines 280-284: the candidate is scored, the best kept, progress reported,
\* and the decision yields (await sleep(0)) at the candidate boundary.
afterPlayouts(ctx, st) ==
  LET cand == ctx.cands[st.ci + 1]
      score == candidateScore(cand.h, st.wins)
      better == ScoreGt(score, st.bestScore)
  IN onProgress([st EXCEPT !.pc = "yieldCand", !.i = 0, !.wins = 0,
                           !.best = IF better THEN cand.m ELSE st.best,
                           !.bestScore = IF better THEN score ELSE st.bestScore,
                           !.evals = @ + 1],
                progressOf(st.done, totalWork(ctx)))

\* randomPlayoutWinner(...) === color: a playout is random, either side may
\* win it.
PlayoutWins == {0, 1}

\* Lines 275-278: the yield after every eighth playout of a candidate.
batchYield(ctx, st) ==
  onProgress([st EXCEPT !.pc = "yieldBatch"], progressOf(st.done, totalWork(ctx)))

\* The playout loop of one candidate from the top of iteration i, for the set
\* S of states the decision may be in there, up to the next yield or return.
RECURSIVE playoutLoop(_, _, _, _)
playoutLoop(ctx, S, i, cancel) ==
  IF S = {} THEN {}
  ELSE IF i >= ctx.playouts THEN {afterPlayouts(ctx, s) : s \in S}
  ELSE IF cancel THEN {Returned(s, NULL) : s \in S}
  ELSE LET timedOut == {[s EXCEPT !.over = TRUE] : s \in {t \in S : TRUE \in ClockChecks(ctx, t.over)}}
           inTime == {s \in S : FALSE \in ClockChecks(ctx, s.over)}
           played == {[s EXCEPT !.wins = @ + w, !.done = @ + 1, !.i = i] :
                         s \in inTime, w \in PlayoutWins}
       IN {afterPlayouts(ctx, s) : s \in timedOut}
            \cup (IF i % 8 = 7
                  THEN {batchYield(ctx, s) : s \in played}
                  ELSE playoutLoop(ctx, played, i + 1, cancel))

\* The loop over the candidates from the top of iteration st.ci; after it,
\* lines 290-291.
candidateLoop(ctx, st, cancel) ==
  IF st.ci >= Len(ctx.cands) THEN {Returned(onProgress(st, 100), st.best)}
  ELSE IF cancel THEN {Returned(st, NULL)}
  ELSE playoutLoop(ctx, {[st EXCEPT !.i = 0, !.wins = 0]}, 0, cancel)

\* chooseAIMoveAsync from the call to its first yield or its return.
selectCall(ctx, cancel) ==
  IF ctx.onlyPass THEN {Returned(onProgress(Fresh, 100), ctx.moves[1])}
  ELSE IF ctx.L = 1 THEN {levelOne(ctx, cancel)}
  ELSE candidateLoop(ctx,
         [pc |-> "run", ci |-> 0, i |-> 0, wins |-> 0, done |-> 0,
          best |-> ctx.cands[1].m, bestScore |-> NoScore, over |-> FALSE,
          evals |-> 0, last |-> -1, rising |-> TRUE, full |-> 0],
         cancel)

\* if (now2 - start > timeBudgetMs) break (line 288), o the clock check
stopsAtCap_Never(o) == FALSE
stopsAtCap(o) == o

\* chooseAIMoveAsync from a yield to its next yield or its return.
selectResume(ctx, st, cancel) ==
  IF st.pc = "yieldBatch" THEN playoutLoop(ctx, {st}, st.i + 1, cancel)
  ELSE \* "yieldCand": lines 287-288, then the next candidate
    UNION {IF stopsAtCap(o)
           THEN {Returned(onProgress([st EXCEPT !.over = o], 100), st.best)}
           ELSE candidateLoop(ctx, [st EXCEPT !.ci = @ + 1, !.over = o], cancel) :
           o \in ClockChecks(ctx, st.over)}

-----------------------------------------------------------------------------
(* SpecEngine: the engine's functions called on the boards of EngineBoards *)

\* The boards of EngineBoards hold at most this many stones.
MaxStones == 4

AllGroupsAlive(bd) ==
  \A p \in Cells(SizeOf(bd)) :
     bd[p[1]][p[2]] # EMPTY => floodGroup(bd, p[1], p[2]).liberties # {}

StoneCount(bd) ==
  Cardinality({p \in Cells(SizeOf(bd)) : bd[p[1]][p[2]] # EMPTY})

\* The boards of size n that play can produce (no group without a liberty)
\* with at most k stones.
LiveBoards(n, k) ==
  {b \in [0..(n - 1) -> [0..(n - 1) -> {EMPTY, BLACK, WHITE}]] :
     StoneCount(b) <= k /\ AllGroupsAlive(b)}

EngineBoards == UNION {LiveBoards(n, MaxStones) : n \in Sizes}

EngineIdle ==
  /\ eBoard = makeBoard(2)
  /\ eCall = [op |-> "idle"]

SelectIdle ==
  /\ selIn = [none |-> TRUE]
  /\ selCtx = [none |-> TRUE]
  /\ sel = [pc |-> "none"]
  /\ cancelRef = FALSE

\* The smallest board of the model stands for the 9 of useState(9).
DefaultSize == CHOOSE n \in Sizes : \A m \in Sizes : n <= m

\* App's state after construction (the useState initial values).
SessionInit(n, level) ==
  /\ size = n
  /\ board = makeBoard(n)
  /\ toPlay = BLACK
  /\ lastKey = NoKey
  /\ history = <<>>
  /\ passes = 0
  /\ humanColor = BLACK
  /\ aiLevel = level
  /\ aiThinking = FALSE
  /\ blitz = FALSE
  /\ thinks = <<>>
  /\ aiResult = [none |-> TRUE]

InitEngine ==
  /\ eBoard \in EngineBoards
  /\ eCall = [op |-> "none"]
  /\ SelectIdle
  /\ SessionInit(DefaultSize, 2)

\* placeAndCapture(eBoard, r, c, color)
AttemptMove(r, c, color) ==
  LET run == placeAndCaptureRun(eBoard, r, c, color)
  IN /\ eCall.op = "none"
     /\ eCall' = [op |-> "attemptMove", before |-> eBoard, r |-> r, c |-> c,
                  color |-> color, ret |-> run.ret]
     /\ eBoard' = run.input
     /\ UNCHANGED <<selectVars, sessionVars>>

\* The ko keys the engine is asked about: none, the board itself, and the
\* boards one placement away.
KoKeys(bd, color) ==
  {NoKey, boardKey(bd)}
    \cup {boardKey(m.res.board) : m \in Range(legalMoves(bd, color, NoKey))}

\* legalMoves(eBoard, color, koKeyLast)
LegalMovesCall(color, koKeyLast) ==
  /\ eCall.op = "none"
  /\ eCall' = [op |-> "legalMoves", before |-> eBoard, color |-> color,
               koKeyLast |-> koKeyLast, ret |-> legalMoves(eBoard, color, koKeyLast)]
  /\ eBoard' = eBoard
  /\ UNCHANGED <<selectVars, sessionVars>>

\* chineseScore(eBoard)
ScoreCall ==
  /\ eCall.op = "none"
  /\ eCall' = [op |-> "chineseScore", before |-> eBoard, ret |-> chineseScore(eBoard)]
  /\ eBoard' = eBoard
  /\ UNCHANGED <<selectVars, sessionVars>>

EngineAttemptMove ==
  /\ eCall.op = "none"
  /\ \E p \in Cells(SizeOf(eBoard)), color \in {BLACK, WHITE} : AttemptMove(p[1], p[2], color)

EngineLegalMoves ==
  /\ eCall.op = "none"
  /\ \E color \in {BLACK, WHITE} : \E k \in KoKeys(eBoard, color) : LegalMovesCall(color, k)

NextEngine == EngineAttemptMove \/ EngineLegalMoves \/ ScoreCall

SpecEngine == InitEngine /\ [][NextEngine]_vars

-----------------------------------------------------------------------------
(* SpecPrune: the candidate pruning of chooseAIMoveAsync on boards with more
   legal moves than candidateLimit allows *)

\* The side of the larger boards the pruning is run on: 25 points, more than
\* the candidateLimit of 18.
PruneSize == 5

\* These boards hold at most this many stones (no group of so few stones on a
\* board of this size can be without liberties).
MaxPruneStones == 2

\* The board of side n with the stones of `stones`, a function from some
\* points to colors.
boardWith(n, stones) ==
  [r \in 0..(n - 1) |-> [c \in 0..(n - 1) |->
     IF <<r, c>> \in DOMAIN stones THEN stones[<<r, c>>] ELSE EMPTY]]

PruneBoards ==
  LiveBoards(2, MaxPruneStones + 1)
    \cup {b \in {boardWith(PruneSize, st) :
                   st \in UNION {[P -> {BLACK, WHITE}] :
                                  P \in {Q \in SUBSET Cells(PruneSize) :
                                            Cardinality(Q) <= MaxPruneStones}}} :
            AllGroupsAlive(b)}

\* The level on either side of `level <= 2` in candidateLimit.
PruneLevels == {2, 3}

InitPrune ==
  /\ eBoard \in PruneBoards
  /\ eCall = [op |-> "none"]
  /\ SelectIdle
  /\ SessionInit(DefaultSize, 2)

\* Lines 213-227 of chooseAIMoveAsync(eBoard, color, level, null, ...)
PruneCall ==
  /\ eCall.op = "none"
  /\ \E color \in {BLACK, WHITE}, level \in PruneLevels :
       LET moves == legalMoves(eBoard, color, NoKey)
       IN eCall' = [op |-> "candidates", color |-> color, level |-> level,
                    moves |-> moves,
                    limit |-> candidateLimit(SizeOf(eBoard), level),
                    cands |-> candidatesOf(eBoard, color, level, moves)]
  /\ UNCHANGED <<eBoard, selectVars, sessionVars>>

NextPrune == PruneCall

SpecPrune == InitPrune /\ [][NextPrune]_vars

IsPrune == eCall.op = "candidates"

\* C21: the pruning keeps every capturing legal move whatever the limit is:
\* each move of legalMoves that captures is a candidate, the candidates are
\* never empty, and every candidate is a move of legalMoves.
C21_CapturesAlwaysKept ==
  IsPrune =>
    /\ \A i \in DOMAIN eCall.moves :
         eCall.moves[i].res.captured > 0 =>
           \E k \in DOMAIN eCall.cands : eCall.cands[k].m = eCall.moves[i]
    /\ Len(eCall.cands) > 0
    /\ \A k \in DOMAIN eCall.cands :
         \E i \in DOMAIN eCall.moves : eCall.cands[k].m = eCall.moves[i]

\* C21 witness: more legal moves than the limit, a capture among them, and
\* the non-capture moves cut down to what the limit leaves.
C21_Witness ==
  /\ IsPrune
  /\ Len(eCall.moves) > eCall.limit
  /\ Len(eCall.cands) = eCall.limit
  /\ \E i \in DOMAIN eCall.moves : eCall.moves[i].res.captured > 0

-----------------------------------------------------------------------------
(* SpecPlayout: randomPlayoutWinner on small boards, one iteration a step *)

\* A playout is asked for at most this many plies.
MaxPlies == 4

\* The boards a playout starts from: 2 x 2, at most this many stones.
MaxPlayoutStones == 2

InitPlayout ==
  /\ eBoard \in LiveBoards(2, MaxPlayoutStones)
  /\ eCall = [op |-> "none"]
  /\ SelectIdle
  /\ SessionInit(DefaultSize, 2)

\* randomPlayoutWinner(eBoard, colorToPlay, plies)
PlayoutCall ==
  /\ eCall.op = "none"
  /\ \E colorToPlay \in {BLACK, WHITE}, plies \in 0..MaxPlies :
       eCall' = playoutStart(eBoard, colorToPlay, plies)
  /\ UNCHANGED <<eBoard, selectVars, sessionVars>>

\* The next iteration of the loop.
PlayoutPly ==
  /\ eCall.op = "randomPlayoutWinner"
  /\ eCall.pc = "loop"
  /\ \E pick \in playoutPicks(eCall.board, legalMoves(eCall.board, eCall.turn, eCall.koKeyLast),
                              eCall.turn) :
       eCall' = playoutPly(eCall, pick)
  /\ UNCHANGED <<eBoard, selectVars, sessionVars>>

NextPlayout == PlayoutCall \/ PlayoutPly

SpecPlayout == InitPlayout /\ [][NextPlayout]_vars

IsPlayout == eCall.op = "randomPlayoutWinner"

\* No move is simulated after two passes in a row.
NoMoveAfterTwoPasses ==
  IsPlayout => (~eCall.afterTwo /\ (eCall.pc = "loop" => eCall.passRun < 2))

\* A playout that has returned ended with two passes in a row or made
\* exactly plies moves.
StopsOnlyAfterTwoPasses ==
  (IsPlayout /\ eCall.pc = "returned") => (eCall.passRun = 2 \/ eCall.moved = eCall.plies)

\* C17: a playout stops as soon as two moves in a row were passes, otherwise
\* after exactly plies moves; no move is simulated after two passes in a row.
C17_PlayoutStopsOnTwoPasses == NoMoveAfterTwoPasses /\ StopsOnlyAfterTwoPasses

-----------------------------------------------------------------------------
(* The engine's properties, stated on the last call (eCall) *)

IsAttempt == eCall.op = "attemptMove"
IsLegalMoves == eCall.op = "legalMoves"

\* The board with the stone put down and nothing taken off yet.
PlacedBoard == [eCall.before EXCEPT ![eCall.r][eCall.c] = eCall.color]

\* The opponent's stones that the placement leaves without a liberty: the
\* stones of the opponent groups next to the placed stone that have none on
\* PlacedBoard.
DeadOpponents ==
  UNION {LET g == floodGroup(PlacedBoard, n[1], n[2])
         IN IF g.liberties = {} THEN g.stones ELSE {} :
         n \in {q \in NeighborSet(SizeOf(eCall.before), <<eCall.r, eCall.c>>) :
                  PlacedBoard[q[1]][q[2]] = OtherColor(eCall.color)}}

\* The placed stone's group has no liberty once the dead opponents are off.
NoLibertyAfterCaptures ==
  floodGroup(removeStones(PlacedBoard, DeadOpponents), eCall.r, eCall.c).liberties = {}

\* C6: legalMoves returns a non-empty list with exactly one pass entry, the
\* last one, whose board equals the input board and whose capture count is 0,
\* for every board, color and previous key (null included).
C6_ExactlyOnePassLast ==
  IsLegalMoves =>
    LET m == eCall.ret
        n == Len(m)
    IN /\ n >= 1
       /\ m[n].pass
       /\ m[n].res.board = eCall.before
       /\ m[n].res.captured = 0
       /\ \A i \in 1..(n - 1) : ~m[i].pass

\* C6 witness: a call with a ko key on a board with stones where nothing but
\* the pass is legal.
C6_Witness ==
  /\ IsLegalMoves
  /\ eCall.koKeyLast # NoKey
  /\ StoneCount(eCall.before) > 0
  /\ Len(eCall.ret) = 1
  /\ eCall.ret[1].pass

\* C7: whenever attemptMove returns a result, every group of the mover's color
\* on the returned board has at least one liberty.
C7_NoDeadMoverGroup ==
  (IsAttempt /\ eCall.ret # NULL) =>
    \A p \in Cells(SizeOf(eCall.before)) :
      eCall.ret.board[p[1]][p[2]] = eCall.color =>
        floodGroup(eCall.ret.board, p[1], p[2]).liberties # {}

\* C7 witness: an accepted placement that joins a group of the mover and
\* captures.
C7_Witness ==
  /\ IsAttempt
  /\ eCall.ret # NULL
  /\ eCall.ret.captured > 0
  /\ Cardinality(floodGroup(eCall.ret.board, eCall.r, eCall.c).stones) > 1

\* C8: for every successful attemptMove, capturedCount is the number of cells
\* that hold the opponent's color on the input board and EMPTY on the
\* returned board.
C8_CapturedCount ==
  (IsAttempt /\ eCall.ret # NULL) =>
    eCall.ret.captured =
      Cardinality({p \in Cells(SizeOf(eCall.before)) :
                     /\ eCall.before[p[1]][p[2]] = OtherColor(eCall.color)
                     /\ eCall.ret.board[p[1]][p[2]] = EMPTY})

\* C8 witness: a captured group that touches the placed stone on two sides.
C8_Witness ==
  /\ IsAttempt
  /\ eCall.ret # NULL
  /\ \E n1, n2 \in NeighborSet(SizeOf(eCall.before), <<eCall.r, eCall.c>>) :
       /\ n1 # n2
       /\ eCall.before[n1[1]][n1[2]] = OtherColor(eCall.color)
       /\ n2 \in floodGroup(eCall.before, n1[1], n1[2]).stones
       /\ eCall.ret.board[n1[1]][n1[2]] = EMPTY
       /\ eCall.ret.board[n2[1]][n2[2]] = EMPTY

\* C9: attemptMove returns ILLEGAL (null) when the target cell is occupied and
\* when, after the captures, the placed stone's group has no liberty; in every
\* ILLEGAL case the input board is unchanged cell for cell.
C9_IllegalCases ==
  IsAttempt =>
    /\ eCall.before[eCall.r][eCall.c] # EMPTY => eCall.ret = NULL
    /\ (eCall.before[eCall.r][eCall.c] = EMPTY /\ NoLibertyAfterCaptures) => eCall.ret = NULL
    /\ eCall.ret = NULL => eBoard = eCall.before

\* C9 witness: a placement that fills the last liberty of a group of the mover
\* and captures nothing, rejected.
C9_Witness ==
  /\ IsAttempt
  /\ eCall.before[eCall.r][eCall.c] = EMPTY
  /\ DeadOpponents = {}
  /\ \E n \in NeighborSet(SizeOf(eCall.before), <<eCall.r, eCall.c>>) :
       eCall.before[n[1]][n[2]] = eCall.color
  /\ eCall.ret = NULL

\* C10: a placement on an empty cell that captures at least one opponent
\* stone is accepted by attemptMove, also when the placed stone had no liberty
\* at the moment of placement.
C10_CaptureRescues ==
  (IsAttempt /\ eCall.before[eCall.r][eCall.c] = EMPTY /\ DeadOpponents # {}) =>
    (eCall.ret # NULL /\ eCall.ret.captured >= 1)

\* C10 witness: an accepted capture by a stone that had no liberty when placed.
C10_Witness ==
  /\ IsAttempt
  /\ eCall.before[eCall.r][eCall.c] = EMPTY
  /\ DeadOpponents # {}
  /\ floodGroup(PlacedBoard, eCall.r, eCall.c).liberties = {}
  /\ eCall.ret # NULL

\* The placements of the list legalMoves returned, as cells.
PlacementCells == {<<m.r, m.c>> : m \in {e \in Range(eCall.ret) : ~e.pass}}

\* The empty cells where attemptMove succeeds on the board of the call and
\* gives a position whose key differs from k.
AcceptedCells(k) ==
  {p \in Cells(SizeOf(eCall.before)) :
     /\ eCall.before[p[1]][p[2]] = EMPTY
     /\ LET res == placeAndCapture(eCall.before, p[1], p[2], eCall.color)
        IN res # NULL /\ boardKey(res.board) # k}

\* C11: the placements returned by legalMoves are exactly the empty cells for
\* which attemptMove succeeds and whose resulting key differs from a non-null
\* previousKey; with previousKey null, exactly the empty cells for which
\* attemptMove succeeds.  Each cell is listed once, with attemptMove's result.
C11_PlacementsExactlyAccepted ==
  IsLegalMoves =>
    /\ PlacementCells = AcceptedCells(eCall.koKeyLast)
    /\ Len(eCall.ret) = Cardinality(PlacementCells) + 1
    /\ \A i \in 1..(Len(eCall.ret) - 1) :
         eCall.ret[i].res = placeAndCapture(eCall.before, eCall.ret[i].r, eCall.ret[i].c, eCall.color)

\* C11 witness: a call with a non-null key that keeps a placement and leaves
\* out another one, accepted by attemptMove, because its key is the ko key.
C11_Witness ==
  /\ IsLegalMoves
  /\ eCall.koKeyLast # NoKey
  /\ PlacementCells # {}
  /\ AcceptedCells(NoKey) \ PlacementCells # {}

IsScore == eCall.op = "chineseScore"

\* The maximal 4-connected empty region of the empty cell p on the scored
\* board, and the colors of the stones that border it.
EmptyRegion(p) == floodStones(eCall.before, EMPTY, {p})

BorderColors(p) ==
  {eCall.before[n[1]][n[2]] :
     n \in UNION {NeighborSet(SizeOf(eCall.before), q) : q \in EmptyRegion(p)}} \ {EMPTY}

\* The cells that count for `color`: its stones, and the empty cells whose
\* region is bordered by stones and only by stones of `color`.
AreaOf(color) ==
  {p \in Cells(SizeOf(eCall.before)) :
     \/ eCall.before[p[1]][p[2]] = color
     \/ eCall.before[p[1]][p[2]] = EMPTY /\ BorderColors(p) = {color}}

\* C12: chineseScore counts every cell for at most one side: each stone for
\* its color, each maximal empty region in full for a color exactly when all
\* stones bordering it have that color, and for neither when no stone or both
\* colors border it; black + white never exceeds the number of cells.
C12_AreaScore ==
  IsScore =>
    /\ eCall.ret.black = Cardinality(AreaOf(BLACK))
    /\ eCall.ret.white = Cardinality(AreaOf(WHITE))
    /\ AreaOf(BLACK) \cap AreaOf(WHITE) = {}
    /\ eCall.ret.black + eCall.ret.white <= SizeOf(eCall.before) * SizeOf(eCall.before)

\* C12 witness: a scored board with a region of two cells or more that
\* counts for Black, a region bordered by both colors, and stones of both.
C12_Witness ==
  /\ IsScore
  /\ \E p \in Cells(SizeOf(eCall.before)) :
       /\ eCall.before[p[1]][p[2]] = EMPTY
       /\ BorderColors(p) = {BLACK}
       /\ Cardinality(EmptyRegion(p)) >= 2
  /\ \E p \in Cells(SizeOf(eCall.before)) :
       /\ eCall.before[p[1]][p[2]] = EMPTY
       /\ BorderColors(p) = {BLACK, WHITE}
  /\ eCall.ret.white > 0

-----------------------------------------------------------------------------
(* SpecSelect: one call of chooseAIMoveAsync, its yields, and the token *)

\* The call's estimate of its work (totalWork, line 257) is at most this for
\* the calls of SpecSelect that reach the loops.
MaxWork == 40

\* The boards chooseAIMoveAsync is called with: 2 x 2, at most this many stones.
MaxSelectStones == 3

SelectBoards == LiveBoards(2, MaxSelectStones)

\* The level slider goes from 1 to 5; 0 and 6 are the values next to it.
SelectLevels == 0..6

ContextOf(in) == SelectContext(in.board, in.color, in.level, in.koKeyLast, in.blitz)

\* The calls of SpecSelect: the ko key is null, the key of the board itself
\* (what the session hands over) or the key of a board one placement away.
SelectInputs ==
  {in \in UNION {[board : {b}, color : {c}, level : SelectLevels,
                  blitz : BOOLEAN, koKeyLast : KoKeys(b, c)] :
                   b \in SelectBoards, c \in {BLACK, WHITE}} :
     ContextOf(in).onlyPass \/ totalWork(ContextOf(in)) <= MaxWork}

InitSelect ==
  /\ selIn \in SelectInputs
  /\ selCtx = [none |-> TRUE]
  /\ sel = [pc |-> "idle"]
  /\ cancelRef = FALSE
  /\ EngineIdle
  /\ SessionInit(DefaultSize, 2)

AtYield == sel.pc \in {"yieldBatch", "yieldCand"}

\* The caller's cleanup sets the token: before the call (the caller is still
\* in its own sleep) or while the call is suspended in a yield.
SetCancel ==
  /\ sel.pc = "idle" \/ AtYield
  /\ ~cancelRef
  /\ cancelRef' = TRUE
  /\ UNCHANGED <<selIn, selCtx, sel, engineVars, sessionVars>>

\* chooseAIMoveAsync(board, color, level, koKeyLast, onProgress, cancelRef, blitz)
SelectCall ==
  /\ sel.pc = "idle"
  /\ selCtx' = ContextOf(selIn)
  /\ sel' \in selectCall(selCtx', cancelRef)
  /\ UNCHANGED <<selIn, cancelRef, engineVars, sessionVars>>

\* The call goes on after an await sleep(0).
SelectResume ==
  /\ AtYield
  /\ sel' \in selectResume(selCtx, sel, cancelRef)
  /\ UNCHANGED <<selIn, selCtx, cancelRef, engineVars, sessionVars>>

NextSelect == SetCancel \/ SelectCall \/ SelectResume

SpecSelect == InitSelect /\ [][NextSelect]_vars

\* C13: every move chooseAIMoveAsync returns (any level, blitz or not, time
\* cap or not) is a member of legalMoves for the board, color and ko key of
\* the call: the pass entry, or a placement accepted by attemptMove whose
\* resulting key differs from the ko key.
C13_ReturnsLegalMove ==
  (sel.pc = "returned" /\ sel.ret # NULL) =>
    /\ \E i \in DOMAIN legalMoves(selIn.board, selIn.color, selIn.koKeyLast) :
         legalMoves(selIn.board, selIn.color, selIn.koKeyLast)[i] = sel.ret
    /\ \/ sel.ret = passEntry(selIn.board)
       \/ /\ ~sel.ret.pass
          /\ selIn.board[sel.ret.r][sel.ret.c] = EMPTY
          /\ sel.ret.res = placeAndCapture(selIn.board, sel.ret.r, sel.ret.c, selIn.color)
          /\ selIn.koKeyLast = NoKey \/ boardKey(sel.ret.res.board) # selIn.koKeyLast

\* C13 witness: a Monte Carlo call with a ko key that rules a placement out
\* returns a placement after its time cap fired.
C13_Witness ==
  /\ sel.pc = "returned"
  /\ sel.ret # NULL
  /\ ~sel.ret.pass
  /\ selCtx.L >= 2
  /\ selIn.koKeyLast # NoKey
  /\ Len(legalMoves(selIn.board, selIn.color, NoKey)) > Len(selCtx.moves)

\* C16: a call of chooseAIMoveAsync with a level below 1 or above 5 fails
\* with an error before any board computation: it neither yields nor
\* returns a move.
C16_OutOfRangeLevelFails ==
  (selIn.level \notin 1..5 /\ sel.pc # "idle") => sel.pc = "threw"

\* C18: at levels 2-5 with a finite time budget, once a clock check finds
\* the budget exceeded no further playout is run: the playouts left for the
\* current candidate are dropped (the call goes straight to scoring it and to
\* the yield at the candidate boundary), the candidates left are skipped,
\* and the call returns the best candidate of those examined.
C18_TimeCapStopsPlayouts ==
  /\ [](sel.pc = "yieldBatch" => ~sel.over)
  /\ [][(AtYield /\ sel' # sel /\ (sel.over \/ (sel'.pc = "returned" /\ sel'.over))) =>
         (sel'.pc = "returned" /\ sel'.ret = sel.best /\ sel'.done = sel.done)]_vars

\* C18 witness: a call with several candidates has returned a move after
\* the time cap cut the playouts of its first candidate short.
C18_Witness ==
  /\ sel.pc = "returned"
  /\ sel.over
  /\ sel.ret # NULL
  /\ selCtx.L >= 2
  /\ Len(selCtx.cands) >= 2
  /\ sel.done >= 1
  /\ sel.done < selCtx.playouts

\* C19: the progress values one call reports never decrease, every value
\* before the final one lies in 0..99, and 100 is reported exactly once, as
\* the last report, exactly when a move is returned: never by a call that
\* returns null (cancelled) and never before the return.
C19_ProgressReports ==
  sel.pc \in {"yieldBatch", "yieldCand", "returned"} =>
    /\ sel.rising
    /\ (sel.pc = "returned" /\ sel.ret # NULL) => (sel.full = 1 /\ sel.last = 100)
    /\ (sel.pc # "returned" \/ sel.ret = NULL) => (sel.full = 0 /\ sel.last \in -1..99)
    /\ AtYield => sel.last \in 0..99

\* C19 witness: a Monte Carlo call has run all its playouts, reported at
\* batch and candidate boundaries, and returned a move.
C19_Witness ==
  /\ sel.pc = "returned"
  /\ sel.ret # NULL
  /\ selCtx.L >= 2
  /\ selCtx.playouts >= 8
  /\ sel.done = totalWork(selCtx)
  /\ sel.last = 100

\* C20: a call at level 1 that returns a move from its heuristic-only path
\* has run no playout, and the calls of heuristic it made during the whole
\* call (two for every comparison of the sort, one for every candidate of
\* the loop) are as many as the candidates left after the pruning.
C20_LevelOneEvaluations ==
  (sel.pc = "returned" /\ selIn.level = 1 /\ ~selCtx.onlyPass /\ sel.ret # NULL) =>
    /\ sel.done = 0
    /\ \A k \in SortComparisons(Len(nonCaptures(selCtx.moves))) :
         2 * k + sel.evals = Len(selCtx.cands)

\* C3: if the token is set while the call is suspended in one of its yields,
\* the call returns CANCELLED (null) and never a move.
C3_CancelledNeverReturnsMove ==
  [][(cancelRef /\ AtYield /\ sel'.pc = "returned") => sel'.ret = NULL]_vars

-----------------------------------------------------------------------------
(* The session controller: App's handlers, its AI turn effect and think()  *)
(*                                                                         *)
(* A handler runs to its end, React renders, and the AI turn effect runs   *)
(* if one of its dependencies changed, all before the next event or timer: *)
(* one action each.  think() gives way to other events in its sleep(10)    *)
(* and in the yields of chooseAIMoveAsync.                                 *)

\* The AI levels of the slider that the sessions of the model use (1: the
\* heuristic path, 2: the Monte Carlo path).
Levels == {1, 2}

\* The sessions of Spec keep at most this many entries of history.
MaxHist == 2

\* The games of SpecGame keep at most this many entries of history on the
\* larger board, and this many on the smaller one.
MaxGameHist == 7
MaxSmallGameHist == 4

\* The step A, in a session that keeps at most n entries of history.
Within(A, n) == A /\ Len(history') <= n

\* At most this many think() calls run at a time.
MaxThinks == 2

\* The largest board of the model, for the games of SpecGame.
GameSize == CHOOSE n \in Sizes : \A m \in Sizes : n >= m

RemoveAt(s, i) == SubSeq(s, 1, i - 1) \o SubSeq(s, i + 1, Len(s))

\* { boardKey: boardKey(board), board, toPlay }; keyBefore is no field of the
\* code's entry: it keeps, for the claims about undo, the value lastKey has
\* when the move is made.
historyEntry(bd, color) ==
  [boardKey |-> boardKey(bd), board |-> bd, toPlay |-> color, keyBefore |-> lastKey]

\* A think() call just started by the effect: the values of its closure, its
\* own cancelRef, and its position (in sleep(10)).  ret is filled in when it
\* calls chooseAIMoveAsync.
think(bd, color, level, koKeyLast, blz) ==
  [board |-> bd, toPlay |-> color, level |-> level, lastKey |-> koKeyLast,
   blitz |-> blz, cancel |-> FALSE, pc |-> "sleep", ret |-> {}]

\* return () => { cancelRef.current = true; }: the cleanup of the effect's
\* last run.  The tokens of the runs before it are set already.
cleanupEffect_NoCancel(running) == running
cleanupEffect(running) == [i \in DOMAIN running |-> [running[i] EXCEPT !.cancel = TRUE]]

\* The render after a handler or after think()'s updates, and the AI turn
\* effect.  refChanged: setBoard was given a new array whatever its content;
\* running: the think() calls still running; thinking: aiThinking as the
\* updates left it.  The effect's dependencies are compared with Object.is.
aiTurnEffect(refChanged, running, thinking) ==
  LET changed == \/ refChanged
                 \/ board' # board
                 \/ toPlay' # toPlay
                 \/ humanColor' # humanColor
                 \/ aiLevel' # aiLevel
                 \/ lastKey' # lastKey
      isAITurn == toPlay' # humanColor'
  IN /\ thinks' = IF ~changed THEN running
                  ELSE IF ~isAITurn THEN cleanupEffect(running)
                  ELSE Append(cleanupEffect(running),
                              think(board', toPlay', aiLevel', lastKey', blitz'))
     /\ aiThinking' = IF changed /\ isAITurn THEN TRUE ELSE thinking
     /\ Len(thinks') <= MaxThinks

\* newGame(newSize)
newGame(newSize) ==
  /\ size' = newSize
  /\ board' = makeBoard(newSize)
  /\ toPlay' = BLACK
  /\ lastKey' = NoKey
  /\ history' = <<>>
  /\ passes' = 0

\* The New Game button: newGame(size).
NewGame ==
  /\ newGame(size)
  /\ UNCHANGED <<humanColor, aiLevel, blitz, aiResult, engineVars, selectVars>>
  /\ aiTurnEffect(TRUE, thinks, aiThinking)

\* The "You Play" select: setHumanColor(c); newGame(size).
SetHumanColor(c) ==
  /\ c # humanColor
  /\ humanColor' = c
  /\ newGame(size)
  /\ UNCHANGED <<aiLevel, blitz, aiResult, engineVars, selectVars>>
  /\ aiTurnEffect(TRUE, thinks, aiThinking)

\* The level slider: setAiLevel(l).
SetAiLevel(l) ==
  /\ l # aiLevel
  /\ aiLevel' = l
  /\ UNCHANGED <<gameVars, humanColor, blitz, aiResult, engineVars, selectVars>>
  /\ aiTurnEffect(FALSE, thinks, aiThinking)

\* The blitz checkbox: setBlitz(checked).  blitz is not a dependency of the
\* effect.
SetBlitz ==
  /\ blitz' = ~blitz
  /\ UNCHANGED <<gameVars, humanColor, aiLevel, aiResult, engineVars, selectVars>>
  /\ aiTurnEffect(FALSE, thinks, aiThinking)

\* playAt(r, c)
playAt(r, c) ==
  /\ ~aiThinking
  /\ toPlay = humanColor
  /\ LET res == placeAndCapture(board, r, c, toPlay)
     IN /\ res # NULL
        /\ LET k == boardKey(res.board)
           IN /\ ~(lastKey # NoKey /\ k = lastKey)
              /\ history' = Append(history, historyEntry(board, toPlay))
              /\ board' = res.board
              /\ toPlay' = OtherColor(toPlay)
              /\ lastKey' = k
              /\ passes' = 0
  /\ UNCHANGED <<size, humanColor, aiLevel, blitz, aiResult, engineVars, selectVars>>
  /\ aiTurnEffect(FALSE, thinks, aiThinking)

\* handleBoardClick(e), the click on cell (r, c)
handleBoardClick(r, c) ==
  /\ passes < 2
  /\ inBounds(size, r, c)
  /\ playAt(r, c)

\* The Pass button (disabled while aiThinking || passes >= 2): passMove()
passMove ==
  /\ ~(aiThinking \/ passes >= 2)
  /\ ~aiThinking
  /\ history' = Append(history, historyEntry(board, toPlay))
  /\ toPlay' = OtherColor(toPlay)
  /\ lastKey' = boardKey(board)
  /\ passes' = passes + 1
  /\ UNCHANGED <<size, board, humanColor, aiLevel, blitz, aiResult, engineVars, selectVars>>
  /\ aiTurnEffect(FALSE, thinks, aiThinking)

\* The Undo button: undo()
undo ==
  /\ ~(history = <<>> \/ aiThinking)
  /\ LET prev == history[Len(history)]
     IN /\ history' = SubSeq(history, 1, Len(history) - 1)
        /\ board' = prev.board
        /\ toPlay' = prev.toPlay
        /\ lastKey' = prev.boardKey
        /\ passes' = 0
  /\ UNCHANGED <<size, humanColor, aiLevel, blitz, aiResult, engineVars, selectVars>>
  /\ aiTurnEffect(FALSE, thinks, aiThinking)

\* The moves chooseAIMoveAsync can return when its token stays clear, from
\* the set S of positions the call may be in.  What the call has done so far
\* only feeds its reports: positions that differ in nothing else return the
\* same moves.
RECURSIVE decisionReturns(_, _)
decisionReturns(ctx, S) ==
  LET returned == {s \in S : s.pc = "returned"}
      yielded == {[s EXCEPT !.done = 0, !.evals = 0, !.last = -1,
                            !.rising = TRUE, !.full = 0] : s \in S \ returned}
  IN {s.ret : s \in returned}
       \cup (IF yielded = {} THEN {}
             ELSE decisionReturns(ctx, UNION {selectResume(ctx, s, FALSE) : s \in yielded}))

\* think() from `move` on (lines 393-412), the call t of think() having got
\* `move` from chooseAIMoveAsync; running: the other calls still running.
applyAIMove(t, move, running) ==
  /\ aiResult' = [cancelled |-> t.cancel, gotMove |-> move # NULL]
  /\ IF t.cancel \/ move = NULL
     THEN UNCHANGED gameVars
     ELSE /\ history' = Append(history, historyEntry(t.board, t.toPlay))
          /\ toPlay' = OtherColor(t.toPlay)
          /\ size' = size
          /\ IF move.pass
             THEN /\ board' = board
                  /\ lastKey' = boardKey(t.board)
                  /\ passes' = passes + 1
             ELSE /\ board' = move.res.board
                  /\ lastKey' = boardKey(move.res.board)
                  /\ passes' = 0
  /\ UNCHANGED <<humanColor, aiLevel, blitz, engineVars, selectVars>>
  /\ aiTurnEffect(FALSE, running, FALSE)

\* think() number i goes on after its sleep(10) and calls chooseAIMoveAsync:
\* the call returns at once (only a pass is legal, level 1, token set), or it
\* yields.  Timers of equal delay fire in the order they were set.
ThinkWake(i) ==
  /\ thinks[i].pc = "sleep"
  /\ \A j \in 1..(i - 1) : thinks[j].pc # "sleep"
  /\ LET t == thinks[i]
         ctx == SelectContext(t.board, t.toPlay, t.level, t.lastKey, t.blitz)
         S == selectCall(ctx, t.cancel)
     IN IF \E s \in S : s.pc # "returned"
        THEN /\ thinks' = [thinks EXCEPT ![i].pc = "choosing",
                                         ![i].ret = decisionReturns(ctx, S)]
             /\ UNCHANGED <<gameVars, humanColor, aiLevel, aiThinking, blitz,
                            aiResult, engineVars, selectVars>>
        ELSE \E s \in S : applyAIMove(t, s.ret, RemoveAt(thinks, i))

\* chooseAIMoveAsync returns to think() number i after its yields: a move
\* when the token is clear; null or a move when it was set during the yields
\* (the call returns its best move without a poll after its last yield).
ThinkFinish(i) ==
  /\ thinks[i].pc = "choosing"
  /\ LET t == thinks[i]
     IN \E move \in (IF t.cancel THEN {NULL} ELSE {}) \cup t.ret :
          applyAIMove(t, move, RemoveAt(thinks, i))

SessionIdle == EngineIdle /\ SelectIdle

Init == SessionIdle /\ SessionInit(DefaultSize, 2)

BoardClick == \E p \in Cells(size) : handleBoardClick(p[1], p[2])
ColorSelect == \E c \in {BLACK, WHITE} : SetHumanColor(c)
LevelSlider == \E l \in Levels : SetAiLevel(l)
WakeThink == \E i \in DOMAIN thinks : ThinkWake(i)
FinishThink == \E i \in DOMAIN thinks : ThinkFinish(i)

Next ==
  \/ NewGame
  \/ ColorSelect
  \/ LevelSlider
  \/ Within(BoardClick, MaxHist)
  \/ Within(passMove, MaxHist)
  \/ undo
  \/ Within(WakeThink, MaxHist)
  \/ Within(FinishThink, MaxHist)

Spec == Init /\ [][Next]_vars

-----------------------------------------------------------------------------
(* SpecGame: games played with the settings left alone, human Black: on   *)
(* the larger board against level 1, on the smaller one against level 2   *)

GameSettings == {[size |-> GameSize, level |-> 1], [size |-> DefaultSize, level |-> 2]}

InitGame == SessionIdle /\ \E g \in GameSettings : SessionInit(g.size, g.level)

GameHist == IF size = GameSize THEN MaxGameHist ELSE MaxSmallGameHist

NextGame ==
  \/ Within(BoardClick, GameHist)
  \/ Within(passMove, GameHist)
  \/ undo
  \/ SetBlitz
  \/ Within(WakeThink, GameHist)
  \/ Within(FinishThink, GameHist)

SpecGame == InitGame /\ [][NextGame]_vars

\* The position before the last move was a placement's work: the last move
\* put a stone down.
LastMoveWasPlacement == history # <<>> /\ history[Len(history)].board # board

\* No applied placement recreates the position that existed immediately
\* before the opponent's last move.
C1_NoKoRecapture ==
  (Len(history) >= 2 /\ LastMoveWasPlacement) =>
    board # history[Len(history) - 1].board

\* The ko key kept for the next legality check is the key of the position
\* before the last move.
C1_KoKeyIsPriorPosition ==
  history # <<>> => lastKey = history[Len(history)].boardKey

\* C1: simple-ko holds over any game played through the session: no applied
\* placement produces the position that existed immediately before the
\* opponent's last move, and the ko key handed to the legality check is the
\* key of that immediately prior position.
C1_SimpleKo == C1_NoKoRecapture /\ C1_KoKeyIsPriorPosition

\* C2: two consecutive passes end the game: once passes has reached 2, no
\* human move, human pass or AI decision changes the board, the color to
\* move or the pass count; only undo or a new game may.
C2_TwoPassesEndTheGame ==
  [][passes >= 2 =>
       (UNCHANGED <<board, toPlay, passes>> \/ undo \/ NewGame \/ ColorSelect)]_vars

\* The decision of think() number i is stale: a later decision has been
\* started, or the session is no longer at the board, color to move, ko key
\* and AI level it was started for, or it is not the AI's turn.
Stale(i) ==
  \/ i < Len(thinks)
  \/ thinks[i].board # board
  \/ thinks[i].toPlay # toPlay
  \/ thinks[i].lastKey # lastKey
  \/ thinks[i].level # aiLevel
  \/ toPlay = humanColor

\* think() number i goes on with the result of its decision.
ThinkResult(i) == ThinkWake(i) \/ ThinkFinish(i)

\* C4: a stale AI move is never applied: when board, color to move, ko key or
\* AI level changed, or a new game started, while a decision was in flight,
\* its result leaves board, color to move, ko key, history and pass count
\* unchanged; a move is applied only to the board and color it was computed
\* for.
C4_StaleMoveNeverApplied ==
  [][\A i \in DOMAIN thinks :
       (Stale(i) /\ ThinkResult(i)) => UNCHANGED <<board, toPlay, lastKey, history, passes>>]_vars

\* C4 witness: a decision whose session had changed under it came back with
\* a move.
C4_Witness ==
  /\ aiResult = [cancelled |-> TRUE, gotMove |-> TRUE]
  /\ history # <<>>

\* A decision has been started and has neither delivered its move nor been
\* cancelled.
DecisionInFlight == \E i \in DOMAIN thinks : ~thinks[i].cancel

\* C14: undo pops the most recent history entry, sets board, color to move
\* and ko key to the values they had immediately before the undone move, and
\* sets the pass count to 0.
C14_UndoRestoresPreMove ==
  [][undo =>
       LET prev == history[Len(history)]
       IN /\ history' = SubSeq(history, 1, Len(history) - 1)
          /\ board' = prev.board
          /\ toPlay' = prev.toPlay
          /\ lastKey' = prev.keyBefore
          /\ passes' = 0]_vars

\* C15: at most one AI decision runs at any time: a decision is started only
\* after every prior one has been told to cancel and has terminated, so no
\* think() started earlier is still running next to it.
C15_OneDecisionAtATime ==
  \A i, j \in DOMAIN thinks : i = j

\* C22: in every state a game reaches from a new game by placements of the
\* human and of the AI, passes and undos, no group of either color on the
\* board is without a liberty; nor is one on a board kept in the history.
C22_NoDeadGroupOnBoard ==
  /\ AllGroupsAlive(board)
  /\ \A i \in DOMAIN history : AllGroupsAlive(history[i].board)

\* C22 witness: the last move was a placement that captured (the board has
\* changed and holds no more stones than before), after an undo earlier in
\* the game or not.
C22_Witness ==
  /\ LastMoveWasPlacement
  /\ StoneCount(board) <= StoneCount(history[Len(history)].board)

\* C5: undo is a no-op (board, color to move, ko key, history and pass count
\* unchanged) whenever the history is empty or an AI decision is in flight,
\* under every interleaving of level changes, cancellations and completions.
C5_UndoNoOpInFlight ==
  [][(history = <<>> \/ DecisionInFlight) =>
       (undo => UNCHANGED <<board, toPlay, lastKey, history, passes>>)]_vars

====
